---- MODULE Spec2Model ----
(***************************************************************************)
(* Peer wire protocol message layer (src/peer/message/mod.rs): the frame   *)
(* sizer bytes_needed, the decoder parse_bytes / parse_message, the        *)
(* encoder write_bytes and message_size.                                   *)
(*                                                                         *)
(* Numbers.  A u32 (and a usize) is the pair <<hi, lo>> of its two 16-bit  *)
(* limbs, value hi * 65536 + lo, so that every 32-bit length keeps its     *)
(* width.  A usize pair may have hi = 65536 on a 64-bit host (4 + a u32).  *)
(* Bytes are integers 0..255, buffers are sequences of bytes.              *)
(*                                                                         *)
(* Parser results (nom 3 IResult) are records with k in                    *)
(* {"Done", "Incomplete", "Error"}; a Rust panic is k = "Panic".           *)
(***************************************************************************)
EXTENDS Integers, Sequences, FiniteSets, TLC

\* ------------------------------------------------------------------ bounds

\* Longest payload (bytes after the id byte) of a probed buffer.
MaxPayload == 13
\* Longest bitfield / block / raw extension payload of an encoded message.
MaxBlock == 2
\* Messages written to one stream.
MaxMsgs == 2
\* Largest chunk the transport delivers at once.
MaxChunk == 3

\* ------------------------------------------------- constants of the source

KEEP_ALIVE_MESSAGE_LEN == 0
CHOKE_MESSAGE_LEN == 1
UNCHOKE_MESSAGE_LEN == 1
INTERESTED_MESSAGE_LEN == 1
UNINTERESTED_MESSAGE_LEN == 1
HAVE_MESSAGE_LEN == 5
BASE_BITFIELD_MESSAGE_LEN == 1
REQUEST_MESSAGE_LEN == 13
BASE_PIECE_MESSAGE_LEN == 9
CANCEL_MESSAGE_LEN == 13

CHOKE_MESSAGE_ID == 0
UNCHOKE_MESSAGE_ID == 1
INTERESTED_MESSAGE_ID == 2
UNINTERESTED_MESSAGE_ID == 3
HAVE_MESSAGE_ID == 4
BITFIELD_MESSAGE_ID == 5
REQUEST_MESSAGE_ID == 6
PIECE_MESSAGE_ID == 7
CANCEL_MESSAGE_ID == 8

MESSAGE_LENGTH_LEN_BYTES == 4
MESSAGE_ID_LEN_BYTES == 1
HEADER_LEN == MESSAGE_LENGTH_LEN_BYTES + MESSAGE_ID_LEN_BYTES
BASE_PROT_EXTENSION_MESSAGE_LEN == 2

\* Sub-grammar constants (bits_ext / prot_ext, modelled from the wire table).
PORT_MESSAGE_LEN == 3
PORT_MESSAGE_ID == 9
EXTENSION_MESSAGE_ID == 20

\* ---------------------------------------------------------------- numbers

Limb == 256 * 256

\* The u32 / usize pair of a small natural number.
Wide(n) == <<n \div Limb, n % Limb>>

WideLess(a, b) == a[1] < b[1] \/ (a[1] = b[1] /\ a[2] < b[2])

\* Does a buffer of n bytes hold at least w bytes?
HoldsAtLeast(n, w) == w[1] = 0 /\ n >= w[2]

\* byteorder write_u32::<BigEndian>
U32Bytes(v) == <<v[1] \div 256, v[1] % 256, v[2] \div 256, v[2] % 256>>

\* byteorder write_u16::<BigEndian>
U16Bytes(n) == <<n \div 256, n % 256>>

\* The big-endian value of the first four bytes of b.
BeU32Value(b) == <<b[1] * 256 + b[2], b[3] * 256 + b[4]>>

BeU16Value(b) == b[1] * 256 + b[2]

Drop(s, n) == SubSeq(s, n + 1, Len(s))

Take(s, n) == SubSeq(s, 1, n)

\* ----------------------------------------------------------- Option, results

None == [some |-> FALSE]

Some(x) == [some |-> TRUE, v |-> x]

Done(rest, o) == [k |-> "Done", i |-> rest, o |-> o]

Incomplete == [k |-> "Incomplete"]

Error == [k |-> "Error"]

Panic == [k |-> "Panic"]

Ok(m) == [k |-> "Ok", msg |-> m]

Err(why) == [k |-> "Err", why |-> why]

\* ------------------------------------------------------- nom 3 primitives

\* nom::be_u32: Incomplete on fewer than four bytes.
be_u32(i) == IF Len(i) < 4 THEN Incomplete ELSE Done(Drop(i, 4), BeU32Value(i))

\* nom::be_u8: Incomplete on an empty input.
be_u8(i) == IF Len(i) < 1 THEN Incomplete ELSE Done(Drop(i, 1), i[1])

\* nom::opt!: Some on Done, None on Error; an Incomplete child stays Incomplete.
opt(r, i) ==
  CASE r.k = "Done" -> Done(r.i, Some(r.o))
    [] r.k = "Error" -> Done(i, None)
    [] OTHER -> r

\* tuple!(be_u32, opt!(be_u8)) of the header, its input thrown away.
HeaderTuple(i) ==
  LET a == be_u32(i) IN
  IF a.k # "Done" THEN a
  ELSE LET b == opt(be_u8(a.i), a.i) IN
       IF b.k # "Done" THEN b ELSE Done(<<>>, <<a.o, b.o>>)

\* ---------------------------------------------------------------- messages

KeepAlive == [t |-> "KeepAlive"]

Choke == [t |-> "Choke"]

UnChoke == [t |-> "UnChoke"]

Interested == [t |-> "Interested"]

UnInterested == [t |-> "UnInterested"]

Have(piece_index) == [t |-> "Have", piece_index |-> piece_index]

BitField(bitfield) == [t |-> "BitField", bitfield |-> bitfield]

Request(index, begin, length) ==
  [t |-> "Request", index |-> index, begin |-> begin, length |-> length]

Piece(index, begin, block) ==
  [t |-> "Piece", index |-> index, begin |-> begin, block |-> block]

Cancel(index, begin, length) ==
  [t |-> "Cancel", index |-> index, begin |-> begin, length |-> length]

\* BitsExtensionMessage: the one variant Port{listen_port: u16}.
Port(listen_port) == [t |-> "Port", listen_port |-> listen_port]

BitsExtension(ext) == [t |-> "BitsExtension", ext |-> ext]

\* PeerExtensionProtocolMessage: metadata exchange Request / Data / Reject ...
UtMetadata(kind, piece, block) ==
  [t |-> "UtMetadata", kind |-> kind, piece |-> piece, block |-> block]

\* ... and the catch-all keeping the raw id and payload.
Unrecognized(id, payload) == [t |-> "Unrecognized", id |-> id, payload |-> payload]

ProtExtension(ext) == [t |-> "ProtExtension", ext |-> ext]

\* ------------------------------------------- extension payload (bencode)

\* "d8:msg_typei"
BencMsgType == <<100, 56, 58, 109, 115, 103, 95, 116, 121, 112, 101, 105>>

\* "e5:piecei"
BencPiece == <<101, 53, 58, 112, 105, 101, 99, 101, 105>>

\* "e10:total_sizei"
BencTotalSize == <<101, 49, 48, 58, 116, 111, 116, 97, 108, 95, 115, 105, 122, 101, 105>>

\* "ee"
BencEnd == <<101, 101>>

Digit(n) == 48 + n

MsgTypeOf(kind) == CASE kind = "Request" -> 0 [] kind = "Data" -> 1 [] OTHER -> 2

KindOf(ty) == CASE ty = 0 -> "Request" [] ty = 1 -> "Data" [] OTHER -> "Reject"

\* The bencoded dictionary heading a metadata exchange message; for Data it
\* declares the byte length of the raw block that follows it.
BencodeHeader(kind, piece, blen) ==
  BencMsgType \o <<Digit(MsgTypeOf(kind))>> \o BencPiece \o <<Digit(piece)>>
    \o (IF kind = "Data" THEN BencTotalSize \o <<Digit(blen)>> ELSE <<>>)
    \o BencEnd

\* The bytes of an extension message after the envelope's two id bytes.
ExtBody(ext) ==
  IF ext.t = "UtMetadata"
  THEN BencodeHeader(ext.kind, ext.piece, Len(ext.block)) \o ext.block
  ELSE ext.payload

\* ------------------------------------------------------------------ encoder

\* write_length_id_pair: the big-endian length, then the id if there is one.
write_length_id_pair(length, opt_id) ==
  U32Bytes(Wide(length)) \o (IF opt_id.some THEN <<opt_id.v>> ELSE <<>>)

Written(bytes) == [k |-> "Ok", bytes |-> bytes]

WriteFailed == [k |-> "Err", bytes |-> <<>>]

HaveWrite(m) ==
  write_length_id_pair(HAVE_MESSAGE_LEN, Some(HAVE_MESSAGE_ID)) \o U32Bytes(m.piece_index)

BitFieldWrite(m) ==
  write_length_id_pair(BASE_BITFIELD_MESSAGE_LEN + Len(m.bitfield), Some(BITFIELD_MESSAGE_ID))
    \o m.bitfield

RequestWrite(m) ==
  write_length_id_pair(REQUEST_MESSAGE_LEN, Some(REQUEST_MESSAGE_ID))
    \o U32Bytes(m.index) \o U32Bytes(m.begin) \o U32Bytes(m.length)

PieceWrite(m) ==
  write_length_id_pair(BASE_PIECE_MESSAGE_LEN + Len(m.block), Some(PIECE_MESSAGE_ID))
    \o U32Bytes(m.index) \o U32Bytes(m.begin) \o m.block

CancelWrite(m) ==
  write_length_id_pair(CANCEL_MESSAGE_LEN, Some(CANCEL_MESSAGE_ID))
    \o U32Bytes(m.index) \o U32Bytes(m.begin) \o U32Bytes(m.length)

BitsExtWrite(ext) ==
  write_length_id_pair(PORT_MESSAGE_LEN, Some(PORT_MESSAGE_ID)) \o U16Bytes(ext.listen_port)

\* The extension's own size: the bytes after the envelope's two id bytes.
ProtExtSize(ext) == Len(ExtBody(ext))

BitsExtSize(ext) == PORT_MESSAGE_LEN

\* The envelope: length, id 20, the negotiated (or raw) extension id, the body.
\* A metadata exchange message needs its id from the negotiation context.
ProtExtWrite(ext, extended) ==
  LET envelope(id) ==
        write_length_id_pair(BASE_PROT_EXTENSION_MESSAGE_LEN + ProtExtSize(ext),
                             Some(EXTENSION_MESSAGE_ID))
          \o <<id>> \o ExtBody(ext)
  IN IF ext.t = "Unrecognized" THEN Written(envelope(ext.id))
     ELSE IF extended.some /\ extended.v.ut_metadata.some
          THEN Written(envelope(extended.v.ut_metadata.v))
          ELSE WriteFailed

write_bytes(m, extended) ==
  CASE m.t = "KeepAlive" -> Written(write_length_id_pair(KEEP_ALIVE_MESSAGE_LEN, None))
    [] m.t = "Choke" ->
         Written(write_length_id_pair(CHOKE_MESSAGE_LEN, Some(CHOKE_MESSAGE_ID)))
    [] m.t = "UnChoke" ->
         Written(write_length_id_pair(UNCHOKE_MESSAGE_LEN, Some(UNCHOKE_MESSAGE_ID)))
    [] m.t = "Interested" ->
         Written(write_length_id_pair(INTERESTED_MESSAGE_LEN, Some(INTERESTED_MESSAGE_ID)))
    [] m.t = "UnInterested" ->
         Written(write_length_id_pair(UNINTERESTED_MESSAGE_LEN,
                                      Some(UNINTERESTED_MESSAGE_ID)))
    [] m.t = "Have" -> Written(HaveWrite(m))
    [] m.t = "BitField" -> Written(BitFieldWrite(m))
    [] m.t = "Request" -> Written(RequestWrite(m))
    [] m.t = "Piece" -> Written(PieceWrite(m))
    [] m.t = "Cancel" -> Written(CancelWrite(m))
    [] m.t = "BitsExtension" -> Written(BitsExtWrite(m.ext))
    [] m.t = "ProtExtension" -> ProtExtWrite(m.ext, extended)

\* The match of message_size: the bytes after the length prefix.
message_specific_len(m) ==
  CASE m.t = "KeepAlive" -> KEEP_ALIVE_MESSAGE_LEN
    [] m.t = "Choke" -> CHOKE_MESSAGE_LEN
    [] m.t = "UnChoke" -> UNCHOKE_MESSAGE_LEN
    [] m.t = "Interested" -> INTERESTED_MESSAGE_LEN
    [] m.t = "UnInterested" -> UNINTERESTED_MESSAGE_LEN
    [] m.t = "Have" -> HAVE_MESSAGE_LEN
    [] m.t = "BitField" -> BASE_BITFIELD_MESSAGE_LEN + Len(m.bitfield)
    [] m.t = "Request" -> REQUEST_MESSAGE_LEN
    [] m.t = "Piece" -> BASE_PIECE_MESSAGE_LEN + Len(m.block)
    [] m.t = "Cancel" -> CANCEL_MESSAGE_LEN
    [] m.t = "BitsExtension" -> BitsExtSize(m.ext)
    [] m.t = "ProtExtension" -> BASE_PROT_EXTENSION_MESSAGE_LEN + ProtExtSize(m.ext)

\* Faulty variant of message_size: the length prefix is left out of the size.
message_size_without_prefix(m) == message_specific_len(m)

message_size(m) == MESSAGE_LENGTH_LEN_BYTES + message_specific_len(m)

\* ------------------------------------------------------------ frame sizer

Val(v) == [k |-> "Val", v |-> v]

\* `value as usize` on a host whose usize has `bits` bits.
AsUsize(value, bits) == IF bits = 16 THEN <<0, value[2]>> ELSE value

\* u32_to_usize: panics when the value does not survive the cast.
u32_to_usize(value, bits) ==
  IF AsUsize(value, bits) # value THEN Panic ELSE Val(AsUsize(value, bits))

\* Does the usize pair v exceed usize::MAX on the host?
UsizeOverflows(v, bits) ==
  CASE bits = 16 -> v[1] >= 1
    [] bits = 32 -> v[1] >= Limb
    [] OTHER -> FALSE

\* usize addition n + v of a small n: with overflow checks (the debug profile)
\* an overflow panics, without them (the release profile) it wraps.
UsizeAdd(n, v, bits, checks) ==
  LET lo == v[2] + n
      sum == <<v[1] + (lo \div Limb), lo % Limb>>
  IN IF ~UsizeOverflows(sum, bits) THEN Val(sum)
     ELSE IF checks THEN Panic
     ELSE Val(<<IF bits = 16 THEN 0 ELSE sum[1] % Limb, sum[2]>>)

\* bytes_needed: Ok(None) without a whole length prefix, else
\* Ok(Some(MESSAGE_LENGTH_LEN_BYTES + u32_to_usize(length))).
bytes_needed(bytes, bits, checks) ==
  LET r == be_u32(bytes) IN
  IF r.k # "Done" THEN [k |-> "Ok", v |-> None]
  ELSE LET c == u32_to_usize(r.o, bits) IN
       IF c.k = "Panic" THEN Panic
       ELSE LET n == UsizeAdd(MESSAGE_LENGTH_LEN_BYTES, c.v, bits, checks) IN
            IF n.k = "Panic" THEN Panic ELSE [k |-> "Ok", v |-> Some(n.v)]

\* ---------------------------------------------------- sub-grammar decoders

\* Each decodes a payload already stripped of the length and id header; a
\* payload shorter than the message needs is Incomplete.
HaveParse(payload) ==
  IF Len(payload) < 4 THEN Incomplete
  ELSE Done(<<>>, Ok(Have(BeU32Value(payload))))

BitFieldParse(payload, len) ==
  IF ~HoldsAtLeast(Len(payload), len) THEN Incomplete
  ELSE Done(<<>>, Ok(BitField(Take(payload, len[2]))))

RequestParse(payload) ==
  IF Len(payload) < 12 THEN Incomplete
  ELSE Done(<<>>, Ok(Request(BeU32Value(payload), BeU32Value(Drop(payload, 4)),
                             BeU32Value(Drop(payload, 8)))))

\* The block is what the declared length leaves after index and begin.
PieceParse(payload, len) ==
  IF Len(payload) < 8 \/ WideLess(len, Wide(8)) \/ ~HoldsAtLeast(Len(payload), len)
  THEN Incomplete
  ELSE Done(<<>>, Ok(Piece(BeU32Value(payload), BeU32Value(Drop(payload, 4)),
                           SubSeq(payload, 9, len[2]))))

CancelParse(payload) ==
  IF Len(payload) < 12 THEN Incomplete
  ELSE Done(<<>>, Ok(Cancel(BeU32Value(payload), BeU32Value(Drop(payload, 4)),
                            BeU32Value(Drop(payload, 8)))))

\* The reserved-bit extension grammar: Error when the header is not its own.
BitsExtParse(bytes) ==
  IF Len(bytes) < HEADER_LEN THEN Incomplete
  ELSE IF BeU32Value(bytes) # Wide(PORT_MESSAGE_LEN) \/ bytes[HEADER_LEN] # PORT_MESSAGE_ID
       THEN Error
       ELSE IF Len(bytes) < HEADER_LEN + 2 THEN Incomplete
            ELSE Done(<<>>, Ok(Port(BeU16Value(Drop(bytes, HEADER_LEN)))))

\* The metadata exchange decoder: the dictionary, then for Data the block of
\* exactly the declared length.
UtMetadataParse(payload) ==
  LET tyAt == Len(BencMsgType) + 1
      pieceAt == tyAt + Len(BencPiece) + 1
      sizeAt == pieceAt + Len(BencTotalSize) + 1
  IN IF Len(payload) < pieceAt THEN Err("malformed extension payload")
     ELSE LET ty == payload[tyAt] - 48
              piece == payload[pieceAt] - 48
              blen == IF ty = 1 /\ Len(payload) >= sizeAt THEN payload[sizeAt] - 48 ELSE 0
          IN IF ty \in 0..2 /\ piece \in 0..9 /\ blen \in 0..9
                /\ payload = BencodeHeader(KindOf(ty), piece, blen)
                               \o SubSeq(payload, Len(payload) - blen + 1, Len(payload))
                /\ (ty # 1 => blen = 0)
             THEN Ok(UtMetadata(KindOf(ty), piece,
                                SubSeq(payload, Len(payload) - blen + 1, Len(payload))))
             ELSE Err("malformed extension payload")

\* The extension protocol grammar: the envelope (length, id 20, extension id,
\* payload); an id the context does not know gives the catch-all variant.
ProtExtParse(bytes, extended) ==
  IF Len(bytes) < HEADER_LEN + 1 \/ bytes[HEADER_LEN] # EXTENSION_MESSAGE_ID
     \/ WideLess(BeU32Value(bytes), Wide(BASE_PROT_EXTENSION_MESSAGE_LEN))
  THEN Err("not an extension envelope")
  ELSE LET len == BeU32Value(bytes)
           ext_id == bytes[HEADER_LEN + 1]
           rest == Drop(bytes, HEADER_LEN + 1)
       IN IF len[1] # 0 \/ Len(rest) < len[2] - BASE_PROT_EXTENSION_MESSAGE_LEN
          THEN Err("truncated extension envelope")
          ELSE LET payload == Take(rest, len[2] - BASE_PROT_EXTENSION_MESSAGE_LEN) IN
               IF extended.some /\ extended.v.ut_metadata.some
                  /\ extended.v.ut_metadata.v = ext_id
               THEN UtMetadataParse(payload)
               ELSE Ok(Unrecognized(ext_id, payload))

\* ------------------------------------------------------------------ decoder

\* `message_len - 1` on a u32: with overflow checks 0 - 1 panics, without
\* them it wraps to 2^32 - 1.
U32SubOne(v, checks) ==
  IF v = <<0, 0>> THEN (IF checks THEN Panic ELSE Val(<<Limb - 1, Limb - 1>>))
  ELSE Val(IF v[2] > 0 THEN <<v[1], v[2] - 1>> ELSE <<v[1] - 1, Limb - 1>>)

\* Faulty variant of LenMatches: a pattern that takes any length field.
LenMatchesAny(len, c) == TRUE

\* A literal length in a switch! pattern matches that value only.
LenMatches(len, c) == len = Wide(c)

\* The arm of switch! that the (length, id) pair selects, first match first.
SwitchArm(len, id) ==
  IF LenMatches(len, KEEP_ALIVE_MESSAGE_LEN) /\ ~id.some THEN "KeepAlive"
  ELSE IF ~id.some THEN "NoMatch"
  ELSE IF LenMatches(len, KEEP_ALIVE_MESSAGE_LEN) /\ id.v = 0 THEN "KeepAlive"
  ELSE IF LenMatches(len, CHOKE_MESSAGE_LEN) /\ id.v = CHOKE_MESSAGE_ID THEN "Choke"
  ELSE IF LenMatches(len, UNCHOKE_MESSAGE_LEN) /\ id.v = UNCHOKE_MESSAGE_ID THEN "UnChoke"
  ELSE IF LenMatches(len, INTERESTED_MESSAGE_LEN) /\ id.v = INTERESTED_MESSAGE_ID
       THEN "Interested"
  ELSE IF LenMatches(len, UNINTERESTED_MESSAGE_LEN) /\ id.v = UNINTERESTED_MESSAGE_ID
       THEN "UnInterested"
  ELSE IF LenMatches(len, HAVE_MESSAGE_LEN) /\ id.v = HAVE_MESSAGE_ID THEN "Have"
  ELSE IF id.v = BITFIELD_MESSAGE_ID THEN "BitField"
  ELSE IF LenMatches(len, REQUEST_MESSAGE_LEN) /\ id.v = REQUEST_MESSAGE_ID THEN "Request"
  ELSE IF id.v = PIECE_MESSAGE_ID THEN "Piece"
  ELSE IF LenMatches(len, CANCEL_MESSAGE_LEN) /\ id.v = CANCEL_MESSAGE_ID THEN "Cancel"
  ELSE "NoMatch"

\* Arms that take the payload with bytes.split_off(HEADER_LEN), which leaves
\* only the header in `bytes`.
SplitsOff(arm) == arm \in {"Have", "BitField", "Request", "Piece", "Cancel"}

\* The built-in tier: switch! on the header tuple.  Gives the parser result
\* and what `bytes` holds afterwards.
BuiltinTier(bytes, checks) ==
  LET h == HeaderTuple(bytes) IN
  IF h.k # "Done" THEN [res |-> h, bytes |-> bytes]
  ELSE LET len == h.o[1]
           arm == SwitchArm(len, h.o[2])
           payload == Drop(bytes, HEADER_LEN)
           less == U32SubOne(len, checks)
           res ==
             CASE arm = "KeepAlive" -> Done(<<>>, Ok(KeepAlive))
               [] arm = "Choke" -> Done(<<>>, Ok(Choke))
               [] arm = "UnChoke" -> Done(<<>>, Ok(UnChoke))
               [] arm = "Interested" -> Done(<<>>, Ok(Interested))
               [] arm = "UnInterested" -> Done(<<>>, Ok(UnInterested))
               [] arm = "Have" -> HaveParse(payload)
               [] arm = "BitField" ->
                    IF less.k = "Panic" THEN Panic ELSE BitFieldParse(payload, less.v)
               [] arm = "Request" -> RequestParse(payload)
               [] arm = "Piece" ->
                    IF less.k = "Panic" THEN Panic ELSE PieceParse(payload, less.v)
               [] arm = "Cancel" -> CancelParse(payload)
               [] OTHER -> Error
       IN [res |-> res,
           bytes |-> IF SplitsOff(arm) THEN Take(bytes, HEADER_LEN) ELSE bytes]

\* Faulty variant of AltTriesNext: an alternation that also moves on when a
\* tier is Incomplete.
AltTriesNextOnIncomplete(r) == r.k \in {"Error", "Incomplete"}

\* alt!: the next alternative is tried on Error only; Done and Incomplete
\* (and a panic) end the alternation.
AltTriesNext(r) == r.k = "Error"

\* map!(..., |res_bits_ext| res_bits_ext.map(BitsExtension))
MapBitsExt(r) ==
  IF r.k = "Done" /\ r.o.k = "Ok" THEN Done(r.i, Ok(BitsExtension(r.o.msg))) ELSE r

\* map!(value!(...), |res_prot_ext| res_prot_ext.map(ProtExtension))
MapProtExt(r) ==
  IF r.k = "Done" /\ r.o.k = "Ok" THEN Done(r.i, Ok(ProtExtension(r.o.msg))) ELSE r

\* parse_message: the three tiers in order.  `tried` is the tiers it ran.
parse_message(bytes, extended, checks) ==
  LET t1 == BuiltinTier(bytes, checks) IN
  IF ~AltTriesNext(t1.res) THEN [res |-> t1.res, tried |-> {1}]
  ELSE LET t2 == MapBitsExt(BitsExtParse(t1.bytes)) IN
       IF ~AltTriesNext(t2) THEN [res |-> t2, tried |-> {1, 2}]
       ELSE [res |-> MapProtExt(Done(<<>>, ProtExtParse(t1.bytes, extended))),
             tried |-> {1, 2, 3}]

\* parse_bytes: the io::Result of a Done, else the generic decode failure.
parse_bytes(bytes, extended, checks) ==
  LET r == parse_message(bytes, extended, checks).res IN
  CASE r.k = "Done" -> r.o
    [] r.k = "Panic" -> Panic
    [] OTHER -> Err("Failed To Parse PeerWireProtocolMessage")

\* -------------------------------------------------------------------- state

VARIABLES
  usize_bits,       \* width of usize on the host: 16, 32 or 64
  overflow_checks,  \* the build panics on integer overflow (debug) or wraps
  extended,         \* the negotiation context, an Option<ExtendedMessage>
  op,               \* the last operation called on the codec
  msg,              \* the message handed to the encoder, or NoMsg
  buf,              \* the buffer handed to the sizer / decoder, or written
  result,           \* what the last operation returned
  tried,            \* the grammar tiers the last decode ran
  sent,             \* stream: the messages written, in order
  wire,             \* stream: bytes written and not yet delivered
  rbuf,             \* stream: the receiver's buffer
  received          \* stream: the frames the receiver decoded, in order

vars == <<usize_bits, overflow_checks, extended, op, msg, buf, result, tried,
          sent, wire, rbuf, received>>

config == <<usize_bits, overflow_checks, extended>>

probe == <<op, msg, buf, result, tried>>

stream == <<sent, wire, rbuf, received>>

NoMsg == [t |-> "NoMsg"]

NoResult == [k |-> "NoResult"]

\* ------------------------------------------------------------------- inputs

UsizeWidths == {16, 32, 64}

\* No context, a context without the metadata exchange, one that maps it to 3.
Contexts == {None, Some([ut_metadata |-> None]), Some([ut_metadata |-> Some(3)])}

\* Length fields: the table's values and their neighbours, 2^16 - 4, 2^16,
\* 2^32 - 4 and 2^32 - 1.
ProbeLens ==
  {Wide(n) : n \in {0, 1, 2, 3, 5, 6, 9, 11, 13}}
    \cup {<<0, Limb - 4>>, <<1, 0>>, <<Limb - 1, Limb - 4>>, <<Limb - 1, Limb - 1>>}

ProbeIds == 0..9 \cup {EXTENSION_MESSAGE_ID}

Ramp(n, start) == [i \in 1..n |-> start + i - 1]

\* Length prefixes cut short, and a length, an id and 0..MaxPayload bytes.
Buffers ==
  {Take(U32Bytes(l), n) : l \in ProbeLens, n \in 0..4}
    \cup {U32Bytes(l) \o <<id>> \o Ramp(n, start) :
            l \in ProbeLens, id \in ProbeIds, n \in 0..MaxPayload, start \in {0, 3}}

U32Samples == {<<0, 0>>, <<0, 7>>, <<1, 0>>, <<Limb - 1, Limb - 1>>}

Ranges == {<<(<<0, 1>>), (<<0, 0>>), (<<0, 4>>)>>,
           <<(<<0, 7>>), (<<1, 0>>), (<<0, 16384>>)>>,
           <<(<<Limb - 1, Limb - 1>>), (<<258, 772>>), (<<Limb - 1, 0>>)>>}

Blocks == UNION {[1..n -> {0, 129}] : n \in 0..MaxBlock}

ExtMessages ==
  {UtMetadata(kd, p, <<>>) : kd \in {"Request", "Reject"}, p \in {0, 9}}
    \cup {UtMetadata("Data", p, b) : p \in {0, 9}, b \in Blocks}
    \cup {Unrecognized(id, b) : id \in {3, 5}, b \in Blocks}

Messages ==
  {KeepAlive, Choke, UnChoke, Interested, UnInterested}
    \cup {Have(p) : p \in U32Samples}
    \cup {BitField(b) : b \in Blocks}
    \cup {Request(r[1], r[2], r[3]) : r \in Ranges}
    \cup {Cancel(r[1], r[2], r[3]) : r \in Ranges}
    \cup {Piece(r[1], r[2], b) : r \in Ranges, b \in Blocks}
    \cup {BitsExtension(Port(p)) : p \in {0, 6881, Limb - 1}}
    \cup {ProtExtension(e) : e \in ExtMessages}

\* The messages of the stream: one of every variant.
StreamMessages ==
  {KeepAlive, Choke, Have(<<0, 7>>), BitField(<<129>>),
   Request(<<0, 1>>, <<0, 0>>, <<0, 4>>), Piece(<<0, 7>>, <<1, 0>>, <<129>>),
   BitsExtension(Port(6881)), ProtExtension(Unrecognized(5, <<129>>)),
   ProtExtension(UtMetadata("Reject", 0, <<>>))}

\* ----------------------------------------------------------- codec actions

ConfigInit ==
  /\ usize_bits \in UsizeWidths
  /\ overflow_checks \in BOOLEAN
  /\ extended \in Contexts

\* One input of the codec: a buffer for the sizer and decoder, or a message
\* for the encoder.
Init ==
  /\ ConfigInit
  /\ op = "init" /\ result = NoResult /\ tried = {}
  /\ \/ msg = NoMsg /\ buf \in Buffers
     \/ msg \in Messages /\ buf = <<>>
  /\ sent = <<>> /\ wire = <<>> /\ rbuf = <<>> /\ received = <<>>

\* A buffer is at hand: a given one, or the bytes write_bytes produced.
HasBuffer ==
  \/ op = "init" /\ msg = NoMsg
  \/ op = "write_bytes" /\ result.k = "Ok"

CallBytesNeeded ==
  /\ HasBuffer
  /\ op' = "bytes_needed"
  /\ result' = bytes_needed(buf, usize_bits, overflow_checks)
  /\ UNCHANGED <<msg, buf, tried, config, stream>>

CallParseBytes ==
  /\ HasBuffer
  /\ op' = "parse_bytes"
  /\ result' = parse_bytes(buf, extended, overflow_checks)
  /\ tried' = parse_message(buf, extended, overflow_checks).tried
  /\ UNCHANGED <<msg, buf, config, stream>>

CallWriteBytes ==
  /\ op = "init" /\ msg # NoMsg
  /\ op' = "write_bytes"
  /\ result' = [k |-> write_bytes(msg, extended).k]
  /\ buf' = write_bytes(msg, extended).bytes
  /\ UNCHANGED <<msg, tried, config, stream>>

CallMessageSize ==
  /\ op = "init" /\ msg # NoMsg
  /\ op' = "message_size"
  /\ result' = [k |-> "Size", v |-> message_size(msg)]
  /\ UNCHANGED <<msg, buf, tried, config, stream>>

Next == CallBytesNeeded \/ CallParseBytes \/ CallWriteBytes \/ CallMessageSize

Spec == Init /\ [][Next]_vars

\* ----------------------------------------------------------- stream actions

StreamInit ==
  /\ ConfigInit
  /\ op = "init" /\ msg = NoMsg /\ buf = <<>> /\ result = NoResult /\ tried = {}
  /\ sent = <<>> /\ wire = <<>> /\ rbuf = <<>> /\ received = <<>>

\* The sender encodes one more message onto the stream.
Send(m) ==
  /\ Len(sent) < MaxMsgs
  /\ write_bytes(m, extended).k = "Ok"
  /\ sent' = Append(sent, m)
  /\ wire' = wire \o write_bytes(m, extended).bytes
  /\ UNCHANGED <<rbuf, received, config, probe>>

\* The transport delivers the next n bytes, wherever the frames end.
Deliver(n) ==
  /\ n <= Len(wire)
  /\ rbuf' = rbuf \o Take(wire, n)
  /\ wire' = Drop(wire, n)
  /\ UNCHANGED <<sent, received, config, probe>>

\* The size the sizer reports for the receiver's buffer, once the buffer
\* holds that many bytes.
FrameReady ==
  LET n == bytes_needed(rbuf, usize_bits, overflow_checks) IN
  n.k = "Ok" /\ n.v.some /\ HoldsAtLeast(Len(rbuf), n.v.v)

\* The receiver removes exactly the reported number of bytes and decodes them.
Consume ==
  /\ FrameReady
  /\ LET n == bytes_needed(rbuf, usize_bits, overflow_checks).v.v IN
       /\ received' = Append(received,
                             [size |-> n,
                              res |-> parse_bytes(Take(rbuf, n[2]), extended,
                                                  overflow_checks)])
       /\ rbuf' = Drop(rbuf, n[2])
  /\ UNCHANGED <<sent, wire, config, probe>>

StreamNext ==
  \/ \E m \in StreamMessages : Send(m)
  \/ \E n \in 1..MaxChunk : Deliver(n)
  \/ Consume

StreamSpec == StreamInit /\ [][StreamNext]_vars

\* ------------------------------------------------------------------- claims

ParseFailure == Err("Failed To Parse PeerWireProtocolMessage")

\* The length field of the buffer under the decoder or sizer.
LengthField == BeU32Value(buf)

\* A decode of a given buffer (not of bytes the encoder just wrote).
DecodedBuffer == op = "parse_bytes" /\ msg = NoMsg

\* A decode of the bytes write_bytes produced for msg.
DecodedWritten == op = "parse_bytes" /\ msg # NoMsg

\* The buffer holds every byte its length field declares.
HoldsDeclared == Len(buf) >= 4 /\ HoldsAtLeast(Len(buf) - 4, LengthField)

\* A context is applicable to a catch-all message when it does not give the
\* message's raw id a meaning of its own.
Applicable(m, ctx) ==
  ~(/\ m.t = "ProtExtension" /\ m.ext.t = "Unrecognized"
    /\ ctx.some /\ ctx.v.ut_metadata.some /\ ctx.v.ut_metadata.v = m.ext.id)

\* C1: round trip. Decoding the bytes write_bytes produced for a message m,
\* under the same applicable negotiation context, returns exactly m.
C1_RoundTrip ==
  (DecodedWritten /\ Applicable(msg, extended)) => result = Ok(msg)

\* The round trip of every variant but KeepAlive.
RoundTripButKeepAlive ==
  (DecodedWritten /\ Applicable(msg, extended) /\ msg # KeepAlive) => result = Ok(msg)

\* The sizes the wire table gives: 4 for KeepAlive, 5 for the four id-only
\* messages, 9 for Have, 17 for Request and Cancel, 5 + N for a BitField of N
\* bytes, 13 + N for a Piece with an N-byte block, 4 + 2 + the extension's own
\* size for ProtExtension.
TableSizeHolds(m, n) ==
  CASE m.t = "KeepAlive" -> n = 4
    [] m.t \in {"Choke", "UnChoke", "Interested", "UnInterested"} -> n = 5
    [] m.t = "Have" -> n = 9
    [] m.t \in {"Request", "Cancel"} -> n = 17
    [] m.t = "BitField" -> n = 5 + Len(m.bitfield)
    [] m.t = "Piece" -> n = 13 + Len(m.block)
    [] m.t = "ProtExtension" -> n = 4 + 2 + Len(ExtBody(m.ext))
    [] OTHER -> TRUE

\* C2: size agreement. The number of bytes a successful write_bytes(m) wrote
\* equals message_size(m), and message_size(m) is the size the wire table
\* gives for m.
C2_SizeAgreement ==
  /\ (op = "write_bytes" /\ result.k = "Ok") =>
       (Len(buf) = message_size(msg) /\ TableSizeHolds(msg, Len(buf)))
  /\ op = "message_size" => TableSizeHolds(msg, result.v)

\* A Piece with a block was written, and an extension envelope was.
C2_Witness ==
  /\ op = "write_bytes" /\ result.k = "Ok"
  /\ \/ msg.t = "Piece" /\ Len(msg.block) = 2 /\ Len(buf) = 15
     \/ msg.t = "ProtExtension" /\ msg.ext.t = "UtMetadata" /\ msg.ext.kind = "Data"

\* 4 + L without wrap-around, L being the length field.
ExactTotal(l) == <<l[1] + ((l[2] + 4) \div Limb), (l[2] + 4) % Limb>>

\* C3: frame sizer. bytes_needed returns None on fewer than four bytes, and
\* otherwise Some(4 + L), L the big-endian value of the first four bytes,
\* without wrap-around for every L up to 2^32 - 1.
C3_FrameSizer ==
  op = "bytes_needed" =>
    IF Len(buf) < 4 THEN result = [k |-> "Ok", v |-> None]
    ELSE result = [k |-> "Ok", v |-> Some(ExactTotal(LengthField))]

\* The frame sizer on hosts whose usize has 64 bits.
FrameSizerOn64 == usize_bits = 64 => C3_FrameSizer

\* The receiver has nothing more to wait for: every written byte was
\* delivered and no further frame can be taken.
StreamDrained == wire = <<>> /\ ~FrameReady

\* C4: stream reassembly. Whatever the chunking, the frames the receiver
\* takes with bytes_needed and decodes with parse_bytes are the written
\* messages in order, each reported size is message_size of the message, and
\* once all is delivered and taken no byte is left over.
C4_StreamReassembly ==
  /\ Len(received) <= Len(sent)
  /\ \A i \in 1..Len(received) :
       /\ received[i].res = Ok(sent[i])
       /\ received[i].size = Wide(message_size(sent[i]))
  /\ StreamDrained => (rbuf = <<>> /\ Len(received) = Len(sent))

\* Stream reassembly with the decode result of KeepAlive frames left aside.
ReassemblyButKeepAlive ==
  /\ Len(received) <= Len(sent)
  /\ \A i \in 1..Len(received) :
       /\ sent[i] # KeepAlive => received[i].res = Ok(sent[i])
       /\ received[i].size = Wide(message_size(sent[i]))
  /\ StreamDrained => (rbuf = <<>> /\ Len(received) = Len(sent))

\* The built-in table entry whose (length field, id byte) pair the buffer
\* carries, or "None".
TableEntry ==
  IF Len(buf) = 4 THEN (IF LengthField = <<0, 0>> THEN "KeepAlive" ELSE "None")
  ELSE IF Len(buf) < 4 \/ LengthField[1] # 0 THEN
         (IF Len(buf) > 4 /\ buf[5] = 5 THEN "BitField"
          ELSE IF Len(buf) > 4 /\ buf[5] = 7 THEN "Piece" ELSE "None")
  ELSE LET l == LengthField[2]
           id == buf[5]
       IN CASE l = 1 /\ id = 0 -> "Choke"
            [] l = 1 /\ id = 1 -> "UnChoke"
            [] l = 1 /\ id = 2 -> "Interested"
            [] l = 1 /\ id = 3 -> "UnInterested"
            [] l = 5 /\ id = 4 -> "Have"
            [] l >= 1 /\ id = 5 -> "BitField"
            [] l = 13 /\ id = 6 -> "Request"
            [] l >= 9 /\ id = 7 -> "Piece"
            [] l = 13 /\ id = 8 -> "Cancel"
            [] OTHER -> "None"

\* C5: dispatch priority. A buffer whose (length field, id byte) pair is an
\* entry of the built-in table, and that holds the bytes the entry declares,
\* decodes to the built-in variant of that entry, under every context.
C5_DispatchPriority ==
  (DecodedBuffer /\ TableEntry # "None" /\ HoldsDeclared) =>
    (result.k = "Ok" /\ result.msg.t = TableEntry)

\* Dispatch priority for the entries that carry an id byte.
DispatchPriorityWithId ==
  (DecodedBuffer /\ TableEntry # "None" /\ HoldsDeclared /\ Len(buf) > 4) =>
    (result.k = "Ok" /\ result.msg.t = TableEntry)

\* C6: KeepAlive decoding. [0,0,0,0] and [0,0,0,0,0] both decode to
\* KeepAlive, and no buffer with a non-zero length field does.
C6_KeepAliveDecoding ==
  DecodedBuffer =>
    /\ buf = <<0, 0, 0, 0>> => result = Ok(KeepAlive)
    /\ buf = <<0, 0, 0, 0, 0>> => result = Ok(KeepAlive)
    /\ (Len(buf) >= 4 /\ LengthField # <<0, 0>>) => result # Ok(KeepAlive)

\* KeepAlive decoding of the five-byte form, and of no non-zero length.
KeepAliveWithIdByte ==
  DecodedBuffer =>
    /\ buf = <<0, 0, 0, 0, 0>> => result = Ok(KeepAlive)
    /\ (Len(buf) >= 4 /\ LengthField # <<0, 0>>) => result # Ok(KeepAlive)

\* C7: integer width violation. When the declared length does not fit the
\* host's usize, bytes_needed yields a recoverable error: neither a panic
\* nor None.
C7_WidthViolationRecoverable ==
  (op = "bytes_needed" /\ Len(buf) >= 4 /\ AsUsize(LengthField, usize_bits) # LengthField)
    => result.k = "Err"

\* C8: malformed input never aborts. parse_bytes returns a message or a
\* decode failure for every buffer and context.
C8_NeverAborts == op = "parse_bytes" => result.k \in {"Ok", "Err"}

\* The header selects Have, BitField, Request, Piece or Cancel of the
\* built-in table and the buffer ends before the declared payload does.
TruncatedEntry ==
  /\ Len(buf) > 4
  /\ TableEntry \in {"Have", "BitField", "Request", "Piece", "Cancel"}
  /\ ~HoldsDeclared

\* C9: no fallback after a partial match. A buffer whose header selects
\* Have, BitField, Request, Piece or Cancel and whose payload is truncated is
\* a decode failure; the two extension tiers are not tried on it.
C9_NoFallback ==
  (DecodedBuffer /\ TruncatedEntry) => (result = ParseFailure /\ tried = {1})

\* A Have cut after two payload bytes, and a Piece cut inside its block, were
\* decoded.
C9_Witness ==
  /\ DecodedBuffer /\ TruncatedEntry /\ result.k = "Err"
  /\ \/ buf = <<0, 0, 0, 5, 4, 0, 1>>
     \/ TableEntry = "Piece" /\ Len(buf) = 14

FixedLen(t) ==
  CASE t \in {"Choke", "UnChoke", "Interested", "UnInterested"} -> 1
    [] t = "Have" -> 5
    [] OTHER -> 13

FixedId(t) ==
  CASE t = "Choke" -> 0 [] t = "UnChoke" -> 1 [] t = "Interested" -> 2
    [] t = "UnInterested" -> 3 [] t = "Have" -> 4 [] t = "Request" -> 6
    [] OTHER -> 8

\* C10: fixed-length exactness. parse_bytes returns Choke, UnChoke,
\* Interested, UnInterested, Have, Request or Cancel only for a buffer whose
\* length field is 1, 1, 1, 1, 5, 13, 13 and whose id byte is 0, 1, 2, 3, 4,
\* 6, 8 respectively.
C10_FixedLengthExact ==
  (/\ op = "parse_bytes" /\ result.k = "Ok"
   /\ result.msg.t \in {"Choke", "UnChoke", "Interested", "UnInterested",
                        "Have", "Request", "Cancel"})
    => /\ Len(buf) > 4
       /\ LengthField = <<0, FixedLen(result.msg.t)>>
       /\ buf[5] = FixedId(result.msg.t)

\* A given buffer decoded to Request, and one with a Have id and another
\* length was decoded to something else.
C10_Witness ==
  /\ DecodedBuffer
  /\ \/ result.k = "Ok" /\ result.msg.t = "Request"
     \/ Len(buf) > 8 /\ buf[5] = 4 /\ LengthField = <<0, 6>> /\ result.k = "Err"

====
